---- MODULE Spec2Model ----
(***************************************************************************)
(* Camera-pose solver of src/player_control/camera: the first-person and   *)
(* the third-person (orbit) camera, their update_transform steps and the   *)
(* conversions between them.                                               *)
(*                                                                         *)
(* Arithmetic is exact fixed point.  Positions are integer triples in      *)
(* fifths of a world unit; orbit distances, ray hit distances and the      *)
(* clearance margin are whole world units.  Orientations are the rotations *)
(* yaw(k * 90 deg) * pitch(p * atan(3/4)), k in 0..3, p in -1..1, whose     *)
(* forward vectors (0,0,-1), (0,3/5,-4/5), (0,-3/5,-4/5) (turned about Y)   *)
(* are exact in fifths.  A float that became NaN is carried as nan = TRUE. *)
(***************************************************************************)
EXTENDS Integers, Sequences, FiniteSets, TLC

(* ---------------------------------------------------------------- bounds *)
MaxDistance == 2       \* the configured max_distance (world units)
MaxClearance == 1      \* largest configured min_distance_to_objects
MaxObstacle == 2       \* farthest obstruction the collision world may hold

(* ------------------------------------------------------------ vector math *)
Zero3 == <<0, 0, 0>>

Add(a, b) == <<a[1] + b[1], a[2] + b[2], a[3] + b[3]>>

Sub(a, b) == <<a[1] - b[1], a[2] - b[2], a[3] - b[3]>>

Scale(a, s) == <<a[1] * s, a[2] * s, a[3] * s>>

Dot(a, b) == a[1] * b[1] + a[2] * b[2] + a[3] * b[3]

LengthSquared(a) == Dot(a, a)

Sgn(x) == IF x > 0 THEN 1 ELSE IF x < 0 THEN -1 ELSE 0

Min(a, b) == IF a < b THEN a ELSE b

Max(a, b) == IF a > b THEN a ELSE b

\* f32::clamp(lo, hi); Rust panics when lo > hi, configurations keep lo <= hi
Clamp(x, lo, hi) == IF x < lo THEN lo ELSE IF x > hi THEN hi ELSE x

\* rotation of v about the up axis Y by k quarter turns (right handed)
RECURSIVE RotY(_, _)
RotY(k, v) == IF k % 4 = 0 THEN v ELSE RotY((k % 4) - 1, <<v[3], v[2], -v[1]>>)

\* Vec3Ext::split(up).horizontal with up = Y: the projection onto up removed
Horizontal(v) == <<v[1], 0, v[3]>>

\* Vec3Ext::is_approx_zero
IsApproxZero(v) == v = Zero3

(* ------------------------------------------------------ floats that may be NaN *)
Fin(v) == [nan |-> FALSE, v |-> v]

NaNVec == [nan |-> TRUE, v |-> Zero3]

Rot(k, p) == [nan |-> FALSE, yaw |-> k % 4, pitch |-> p]

NaNRot == [nan |-> TRUE, yaw |-> 0, pitch |-> 0]

\* Vec3::normalize of a horizontal vector lying on a coordinate axis:
\* the zero vector gives 0 * (1/0) = NaN
Normalize(v) == IF v = Zero3 THEN NaNVec ELSE Fin(<<Sgn(v[1]), Sgn(v[2]), Sgn(v[3])>>)

\* Transform::forward = rotation * -Z, times 5 (a vector of length 5 fifths)
PitchBase(p) == IF p = 0 THEN <<0, 0, -5>> ELSE IF p > 0 THEN <<0, 3, -4>> ELSE <<0, -3, -4>>

Forward5(rot) == RotY(rot.yaw, PitchBase(rot.pitch))

Some(v) == [some |-> TRUE, v |-> v]

None == [some |-> FALSE, v |-> Zero3]

Up == <<0, 1, 0>>

(* ------------------------------------------------------------ configuration *)
\* GameConfig snapshot: the values the two cameras read.  Angles are counted
\* in orientation steps, smoothing rates in 1/second.
Configs ==
    { [ min_distance |-> lo,
        max_distance |-> MaxDistance,
        zoom_speed |-> 1,
        min_distance_to_objects |-> clr,
        translation_smoothing_going_further |-> 1,
        translation_smoothing_going_closer |-> 2,
        translation_smoothing |-> 1,
        rotation_smoothing |-> 2,
        mouse_sensitivity_x |-> 1,
        mouse_sensitivity_y |-> 1,
        most_acute_from_above |-> 1,
        most_acute_from_below |-> 0 ] : lo \in {1}, clr \in {MaxClearance} }

(* ------------------------------------------------------------------- state *)
VARIABLES camera, last

vars == <<camera, last>>

\* Transform: translation (fifths) and rotation
Transform(t, r) == [translation |-> t, rotation |-> r]

\* ThirdPersonCamera { transform, target, up, secondary_target, distance, config }
ThirdPersonCamera(tr, target, up, sec, distance, config) ==
    [ kind |-> "third", transform |-> tr, target |-> target, up |-> up,
      secondary_target |-> sec, distance |-> distance, config |-> config ]

\* FirstPersonCamera { transform, look_target, up, config }; the fields a
\* first-person camera does not have are held at fixed values
FirstPersonCamera(tr, look, up, config) ==
    [ kind |-> "first", transform |-> tr, target |-> Zero3, up |-> up,
      secondary_target |-> look, distance |-> 0, config |-> config ]

\* ThirdPersonCamera::forward / FirstPersonCamera::forward (times 5)
forward(cam) ==
    IF cam.transform.rotation.nan THEN NaNVec ELSE Fin(Forward5(cam.transform.rotation))

(* ---------------------------------------------------------- pitch clamping *)
\* camera::util::clamp_pitch: the pitch delta truncated so that the forward
\* vector stays within the configured limits above and below the horizon
clamp_pitch(up, fwd, angle, above, below) ==
    IF fwd.nan THEN angle
    ELSE LET cur == Sgn(Dot(fwd.v, up))
         IN  Clamp(cur + angle, -below, above) - cur

(* ------------------------------------------------------------ third person *)
\* Transform::rotate_around(pivot, rotation) for rotation = yaw about up times
\* pitch about local x.  The offset eye - pivot of every camera here lies on
\* the forward axis (offset = forward * m), so it turns with the forward vector.
OnAxisFactor(tr, pivot) ==
    LET off == Sub(tr.translation.v, pivot)
        f == Forward5(tr.rotation)
    IN  CHOOSE m \in -(MaxDistance + MaxClearance + 2)..(MaxDistance + MaxClearance + 2) :
            off = Scale(f, m)

rotate_around(tr, pivot, yaw, pitch) ==
    IF tr.rotation.nan THEN Transform(NaNVec, NaNRot)
    ELSE LET r2 == Rot(tr.rotation.yaw + yaw, tr.rotation.pitch + pitch)
         IN  IF tr.translation.nan THEN Transform(NaNVec, r2)
             ELSE Transform(Fin(Add(pivot, Scale(Forward5(r2), OnAxisFactor(tr, pivot)))), r2)

rotate_around_target(cam, yaw, pitch) ==
    [cam EXCEPT !.transform = rotate_around(cam.transform, cam.target, yaw, pitch)]

ThirdClampPitch(cam, angle) ==
    clamp_pitch(cam.up, forward(cam), angle,
                cam.config.most_acute_from_above, cam.config.most_acute_from_below)

handle_camera_controls(cam, camera_movement) ==
    LET yaw == (-camera_movement[1]) * cam.config.mouse_sensitivity_x
        pitch == (-camera_movement[2]) * cam.config.mouse_sensitivity_y
    IN  rotate_around_target(cam, yaw, ThirdClampPitch(cam, pitch))

\* zoom without the clamp to [min_distance, max_distance]
zoom_unclamped(cam, z) ==
    [cam EXCEPT !.distance = cam.distance - z * cam.config.zoom_speed]

zoom(cam, z) ==
    LET zm == z * cam.config.zoom_speed
    IN  [cam EXCEPT !.distance =
            Clamp(cam.distance - zm, cam.config.min_distance, cam.config.max_distance)]

\* the arc taken the wrong way round, from `to` to `from`
from_rotation_arc_reversed(from, to) == CHOOSE j \in 0..3 : RotY(j, to) = from

\* Quat::from_rotation_arc between two horizontal unit vectors on the axes:
\* the number of quarter turns about up taking from to to (a half turn when
\* they are opposite: glam turns about from.any_orthonormal_vector() = +-Y)
from_rotation_arc(from, to) == CHOOSE j \in 0..3 : RotY(j, from) = to

\* the direction taken from the pivot to the eye instead
TargetToEye(cam) ==
    Normalize(Horizontal(Sub(cam.transform.translation.v, cam.target)))

\* (self.target - self.transform.translation).split(self.up).horizontal.normalize()
EyeToTarget(cam) ==
    Normalize(Horizontal(Sub(cam.target, cam.transform.translation.v)))

move_eye_to_align_target_with(cam, secondary_target) ==
    LET target_to_secondary_target == Horizontal(Sub(secondary_target, cam.target))
    IN  IF IsApproxZero(target_to_secondary_target) THEN cam
        ELSE IF cam.transform.translation.nan
             THEN [cam EXCEPT !.transform = Transform(NaNVec, NaNRot)]
        ELSE LET to == Normalize(target_to_secondary_target)
                 eye_to_target == EyeToTarget(cam)
             IN  IF eye_to_target.nan
                 THEN [cam EXCEPT !.transform = Transform(NaNVec, NaNRot)]
                 ELSE LET j == from_rotation_arc(eye_to_target.v, to.v)
                          rotated == Add(cam.target,
                                         RotY(j, Sub(cam.transform.translation.v, cam.target)))
                      IN  [cam EXCEPT !.transform =
                              Transform(Fin(rotated),
                                        IF cam.transform.rotation.nan THEN NaNRot
                                        ELSE Rot(cam.transform.rotation.yaw + j,
                                                 cam.transform.rotation.pitch))]

(* ------------------------------------------------------------ line of sight *)
\* the 1e-3 of keep_line_of_sight, in thousandths of a squared world unit
EpsilonMilli == 1

\* RapierContext::cast_ray(origin, direction, max_toi, solid, filter): the
\* collision world holds its nearest fixed, non-sensor obstruction along the
\* ray at `world` (None: nothing there); a hit is reported up to max_toi
cast_ray(world, max_toi) ==
    IF world.some /\ world.v <= max_toi THEN world ELSE [some |-> FALSE, v |-> 0]

\* the clearance added to the hit distance instead of subtracted
get_raycast_distance_past_hit(cam, world) ==
    LET hit == cast_ray(world, cam.distance)
    IN  IF hit.some THEN hit.v + cam.config.min_distance_to_objects ELSE cam.distance

get_raycast_distance(cam, world) ==
    LET max_toi == cam.distance
        min_distance_to_objects == cam.config.min_distance_to_objects
        hit == cast_ray(world, max_toi)
    IN  IF hit.some THEN hit.v - min_distance_to_objects ELSE max_toi

\* distance * distance < original_distance.length_squared() - 1e-3, with the
\* squared length counted in 25ths; a comparison with NaN is false
IsCloser(distance, eye, target) ==
    /\ ~eye.nan
    /\ 1000 * 25 * distance * distance
           < 1000 * LengthSquared(Sub(target, eye.v)) - 25 * EpsilonMilli

keep_line_of_sight(cam, world) ==
    LET origin == cam.target
        fwd == forward(cam)
        distance == get_raycast_distance(cam, world)
        location == IF fwd.nan THEN NaNVec
                    ELSE Fin(Add(origin, Scale(fwd.v, -distance)))
    IN  [ location |-> location,
          correction |-> IF IsCloser(distance, cam.transform.translation, cam.target)
                         THEN "Closer" ELSE "Further",
          distance |-> distance ]

place_eye_in_valid_position(cam, world) ==
    [cam EXCEPT !.transform.translation = keep_line_of_sight(cam, world).location]

(* ---------------------------------------------------------------- smoothing *)
\* the factor without its cap at 1
SmoothingScaleUncapped(rate, dt2) == rate * dt2

\* (rate * dt).min(1.) as a number of halves: dt2 is the frame time in half seconds
SmoothingScale(rate, dt2) == Min(rate * dt2, 2)

\* Vec3::lerp(self, rhs, s) = self + (rhs - self) * s, the result counted in
\* tenths (position * 2) so that s = 1/2 stays exact
Lerp(from, to, num) ==
    IF from.nan \/ to.nan THEN NaNVec
    ELSE Fin(Add(Scale(from.v, 2), Scale(Sub(to.v, from.v), num)))

\* Quat::slerp(self, end, s): the rotation at fraction num/2 of the arc from
\* a to b; the end points are rotations of the grid, the midpoint is kept as
\* the pair it lies between
ExactRot(r) == [nan |-> r.nan, a |-> r, b |-> r, num |-> 0]

Slerp(a, b, num) ==
    IF a.nan \/ b.nan THEN ExactRot(NaNRot)
    ELSE IF num = 0 \/ a = b THEN ExactRot(a)
    ELSE IF num = 2 THEN ExactRot(b)
    ELSE [nan |-> FALSE, a |-> a, b |-> b, num |-> num]

Smooth(pose, rendered, translation_smoothing, rotation_smoothing, dt2) ==
    [ translation2 |-> Lerp(rendered.translation, pose.translation,
                            SmoothingScale(translation_smoothing, dt2)),
      rotation |-> Slerp(rendered.rotation, pose.rotation,
                         SmoothingScale(rotation_smoothing, dt2)) ]

ThirdTranslationSmoothing(cam, line_of_sight_correction) ==
    IF line_of_sight_correction = "Further"
    THEN cam.config.translation_smoothing_going_further
    ELSE cam.config.translation_smoothing_going_closer

\* ThirdPersonCamera::get_camera_transform
get_camera_transform(cam, dt2, rendered, line_of_sight_correction) ==
    Smooth(cam.transform, rendered,
           ThirdTranslationSmoothing(cam, line_of_sight_correction),
           cam.config.rotation_smoothing, dt2)

(* ------------------------------------------------------------- first person *)
Rotations == {Rot(k, p) : k \in 0..3, p \in -1..1}

\* Transform::look_at / looking_at(target, up): the rotation whose forward
\* vector points from the eye to the target, without roll; NaN when the
\* direction is zero or parallel to up (a zero vector is normalised)
LookRotation(eye, target) ==
    IF eye.nan \/ IsApproxZero(Horizontal(Sub(target, eye.v))) THEN NaNRot
    ELSE CHOOSE r \in Rotations :
            \E m \in 1..(MaxDistance + MaxClearance + 2) :
                Sub(target, eye.v) = Scale(Forward5(r), m)

look_at(cam, target) ==
    [cam EXCEPT !.transform.rotation = LookRotation(cam.transform.translation, target)]

\* Transform::rotate(yaw_rotation * pitch_rotation), pitch about local x
rotate(cam, yaw, pitch) ==
    IF cam.transform.rotation.nan THEN cam
    ELSE [cam EXCEPT !.transform.rotation =
             Rot(cam.transform.rotation.yaw + yaw, cam.transform.rotation.pitch + pitch)]

FirstClampPitch(cam, angle) ==
    clamp_pitch(cam.up, forward(cam), angle,
                cam.config.most_acute_from_above, cam.config.most_acute_from_below)

first_handle_camera_controls(cam, camera_movement) ==
    LET yaw == (-camera_movement[1]) * cam.config.mouse_sensitivity_x
        pitch == (-camera_movement[2]) * cam.config.mouse_sensitivity_y
    IN  rotate(cam, yaw, FirstClampPitch(cam, pitch))

\* FirstPersonCamera::get_camera_transform
first_get_camera_transform(cam, dt2, rendered) ==
    Smooth(cam.transform, rendered, cam.config.translation_smoothing,
           cam.config.rotation_smoothing, dt2)

(* -------------------------------------------------------------- conversions *)
\* impl From<&FirstPersonCamera> for ThirdPersonCamera
FromFirstPerson(fp) ==
    LET target == fp.transform.translation.v
        distance == fp.config.min_distance
        fwd == forward(fp)
        eye == IF fwd.nan THEN NaNVec ELSE Fin(Sub(target, Scale(fwd.v, distance)))
    IN  ThirdPersonCamera(Transform(eye, LookRotation(eye, target)), target, fp.up,
                          fp.secondary_target, distance, fp.config)

\* the conversion that keeps the orbit eye instead of jumping into the pivot
FromThirdPersonAtEye(tp) ==
    FirstPersonCamera(tp.transform, tp.secondary_target, tp.up, tp.config)

\* impl From<&ThirdPersonCamera> for FirstPersonCamera
FromThirdPerson(tp) ==
    FirstPersonCamera(Transform(Fin(tp.target), tp.transform.rotation),
                      tp.secondary_target, tp.up, tp.config)

(* ------------------------------------------------------------------- inputs *)
\* ActionState::axis_pair(CameraAction::Pan): None when the pan binding is
\* not an axis pair, else the pair, counted in orientation steps
NoPan == [some |-> FALSE, v |-> <<0, 0>>]

Pan(x, y) == [some |-> TRUE, v |-> <<x, y>>]

Pans == {NoPan, Pan(0, 0), Pan(1, 1), Pan(0, -1)}

\* ActionState::clamped_value(CameraAction::Zoom), a value in [-1, 1]
Zooms == {-1, 0, 1}

\* what the collision world holds along the ray behind the camera
Nothing == [some |-> FALSE, v |-> 0]

Worlds == {Nothing} \cup {[some |-> TRUE, v |-> d] : d \in 0..MaxObstacle}

\* frame times, in half seconds
FrameTimes == {0, 1, 2}

\* one frame's arguments of update_transform: every zoom, every collision
\* world, every pan, and every frame time with and without an obstruction
Frame(dt2, pan, z, world) == [dt2 |-> dt2, pan |-> pan, zoom |-> z, world |-> world]

Frames ==
    {Frame(2, Pan(0, 0), z, Nothing) : z \in Zooms}
        \cup {Frame(2, Pan(0, 0), 0, w) : w \in Worlds}
        \cup {Frame(1, pan, 0, Nothing) : pan \in Pans}
        \cup {Frame(dt2, Pan(0, 0), 0, w) : dt2 \in FrameTimes, w \in {Nothing, [some |-> TRUE, v |-> 0]}}

\* the rendered transform handed to update_transform
Rendered == Transform(Fin(<<10, -5, 5>>), Rot(1, 0))

\* where the owner may put the pivot
Pivots == {Zero3, <<0, 0, -5>>}

\* offsets of a secondary (look) target from the pivot
SecondaryOffsets == {<<0, 0, 5>>, <<-4, 3, 0>>}

(* ------------------------------------------------------------------ history *)
NoOut == Smooth(Transform(NaNVec, NaNRot), Transform(NaNVec, NaNRot), 0, 0, 0)

\* impl Default for ThirdPersonCamera
DefaultDistance == 5

DefaultThirdPersonCamera(config) ==
    ThirdPersonCamera(Transform(Fin(Zero3), Rot(0, 0)), Zero3, Up, None, DefaultDistance, config)

NoCamera == DefaultThirdPersonCamera(CHOOSE c \in Configs : TRUE)

\* the record of the latest call: its arguments, its result, and the facts
\* about the state before it that the properties below compare it with
Call(op, ok, frame, pre, post, out, los, rate) ==
    [ op |-> op, ok |-> ok, fresh |-> TRUE,
      pan_some |-> frame.pan.some, had_secondary |-> pre.secondary_target.some,
      dt2 |-> frame.dt2,
      ray |-> IF op = "third" /\ ok THEN cast_ray(frame.world, post.distance) ELSE Nothing,
      unchanged |-> (post = pre),
      before |-> IF op \in {"third", "first"} THEN NoCamera ELSE pre,
      origin |-> IF op = "to_first" /\ last.op = "to_third" /\ last.fresh
                 THEN last.before ELSE NoCamera,
      smaller |-> /\ ~pre.transform.translation.nan
                  /\ 1000 * 25 * los.distance * los.distance + 25 * EpsilonMilli
                       < 1000 * LengthSquared(Sub(pre.target, pre.transform.translation.v)),
      target |-> post.target,
      out |-> out, correction |-> los.correction, usable |-> los.distance, rate |-> rate,
      after_update |-> (op = "third" /\ ok /\ last.op = "third" /\ last.ok),
      same_pivot |-> (op = "third" /\ ok /\ pre.target = last.target),
      not_smaller |-> (op = "third" /\ ok /\ los.distance >= last.usable) ]

NoFrame == Frame(0, NoPan, 0, Nothing)

NoLos == [location |-> NaNVec, correction |-> "Further", distance |-> 0]

(* ------------------------------------------------------------------ actions *)
\* ThirdPersonCamera::update_transform
ThirdUpdate(f) ==
    /\ camera.kind = "third"
    /\ LET c1 == IF camera.secondary_target.some
                 THEN move_eye_to_align_target_with(camera, camera.secondary_target.v)
                 ELSE camera
       IN  IF ~f.pan.some
           THEN /\ camera' = c1
                /\ last' = Call("third", FALSE, f, camera, c1, NoOut, NoLos, 0)
           ELSE LET c2 == IF ~IsApproxZero(<<f.pan.v[1], f.pan.v[2], 0>>)
                          THEN handle_camera_controls(c1, f.pan.v) ELSE c1
                    c3 == zoom(c2, f.zoom)
                    los == keep_line_of_sight(c3, f.world)
                    c4 == place_eye_in_valid_position(c3, f.world)
                IN  /\ camera' = c4
                    /\ last' = Call("third", TRUE, f, camera, c4,
                                    get_camera_transform(c4, f.dt2, Rendered, los.correction),
                                    los, ThirdTranslationSmoothing(c4, los.correction))

\* the pan input read on every call
first_always_reads_pan(cam) == TRUE

\* the branch of FirstPersonCamera::update_transform that reads the pan
\* input: taken only when no look target is set
first_reads_pan(cam) == ~cam.secondary_target.some

\* FirstPersonCamera::update_transform (it takes neither zoom nor collision world)
FirstUpdate(f) ==
    /\ camera.kind = "first"
    /\ f.zoom = 0 /\ ~f.world.some
    /\ IF ~first_reads_pan(camera)
       THEN LET c1 == look_at(camera, camera.secondary_target.v)
            IN  /\ camera' = c1
                /\ last' = Call("first", TRUE, f, camera, c1,
                                first_get_camera_transform(c1, f.dt2, Rendered),
                                NoLos, c1.config.translation_smoothing)
       ELSE IF ~f.pan.some
       THEN /\ camera' = camera
            /\ last' = Call("first", FALSE, f, camera, camera, NoOut, NoLos, 0)
       ELSE LET c1 == first_handle_camera_controls(camera, f.pan.v)
            IN  /\ camera' = c1
                /\ last' = Call("first", TRUE, f, camera, c1,
                                first_get_camera_transform(c1, f.dt2, Rendered),
                                NoLos, c1.config.translation_smoothing)

\* the controller switches behaviour: the active camera is rebuilt by From
ToThird ==
    /\ camera.kind = "first"
    /\ camera' = FromFirstPerson(camera)
    /\ last' = Call("to_third", TRUE, NoFrame, camera, camera', NoOut, NoLos, 0)

ToFirst ==
    /\ camera.kind = "third"
    /\ camera' = FromThirdPerson(camera)
    /\ last' = Call("to_first", TRUE, NoFrame, camera, camera', NoOut, NoLos, 0)

Pivot == IF camera.kind = "third" THEN camera.target ELSE camera.transform.translation.v

\* the owner writes the public secondary_target / look_target field
SetSecondary(sec) ==
    /\ camera' = [camera EXCEPT !.secondary_target = sec]
    /\ camera' # camera
    /\ last' = [last EXCEPT !.fresh = FALSE]

\* the owner moves the public pivot (the tracked point walks along the view axis)
MoveTarget(s) ==
    /\ camera.kind = "third"
    /\ ~camera.secondary_target.some
    /\ ~camera.transform.rotation.nan
    /\ LET t == Add(camera.target, Scale(Forward5(camera.transform.rotation), s))
       IN  /\ t \in Pivots
           /\ camera' = [camera EXCEPT !.target = t]
    /\ last' = [last EXCEPT !.fresh = FALSE]

NoCall ==
    [ op |-> "init", ok |-> TRUE, fresh |-> FALSE, pan_some |-> FALSE,
      had_secondary |-> FALSE, dt2 |-> 0, ray |-> Nothing, unchanged |-> TRUE,
      before |-> NoCamera, origin |-> NoCamera, smaller |-> FALSE, target |-> Zero3,
      out |-> NoOut, correction |-> "Further", usable |-> 0, rate |-> 0,
      after_update |-> FALSE, same_pivot |-> FALSE, not_smaller |-> FALSE ]

Init ==
    /\ \E config \in Configs : camera = DefaultThirdPersonCamera(config)
    /\ last = NoCall

Next ==
    \/ \E f \in Frames : ThirdUpdate(f)
    \/ \E f \in Frames : FirstUpdate(f)
    \/ ToThird
    \/ ToFirst
    \/ \E off \in SecondaryOffsets : SetSecondary(Some(Add(Pivot, off)))
    \/ SetSecondary(None)
    \/ \E s \in {-1, 1} : MoveTarget(s)

Spec == Init /\ [][Next]_vars

(* -------------------------------------------- the alignment step on its own *)
\* test::build_camera(camera_translation, primary_target)
Distance(a, b) == CHOOSE d \in 0..(MaxDistance + 2) : 25 * d * d = LengthSquared(Sub(a, b))

build_camera(camera_translation, primary_target, config) ==
    [ DefaultThirdPersonCamera(config) EXCEPT
        !.transform = Transform(Fin(camera_translation),
                                LookRotation(Fin(camera_translation), primary_target)),
        !.target = primary_target,
        !.distance = Distance(primary_target, camera_translation) ]

\* pivots, eyes and secondary targets of the alignment cases: the pivots of
\* the unit tests, eyes up to MaxDistance behind the pivot in every direction
\* of the grid (and on the pivot, as in the default camera), the eye (2,0,0)
\* of the unit tests, secondary targets on, above, below and around the pivot
AlignPivots == {Zero3, <<-10, 0, 0>>, <<-10, -15, 0>>}

AlignOffsets ==
    {Zero3, <<0, 5, 0>>, <<0, -5, 0>>, <<0, 10, -10>>} \cup {Forward5(r) : r \in Rotations}

AlignCameras ==
    {build_camera(Sub(t, Scale(Forward5(r), m)), t, config) :
        t \in AlignPivots, r \in Rotations, m \in 0..MaxDistance, config \in Configs}
        \cup {build_camera(<<10, 0, 0>>, <<-10, 0, 0>>, config) : config \in Configs}
        \cup {DefaultThirdPersonCamera(config) : config \in Configs}

InitAlign ==
    /\ \E cam \in AlignCameras, off \in AlignOffsets :
          camera = [cam EXCEPT !.secondary_target = Some(Add(cam.target, off))]
    /\ last = NoCall

\* lines 94-96 of update_transform: the alignment with the secondary target
Align ==
    /\ last.op = "init"
    /\ camera.secondary_target.some
    /\ camera' = move_eye_to_align_target_with(camera, camera.secondary_target.v)
    /\ last' = [NoCall EXCEPT !.op = "align", !.before = camera,
                              !.unchanged = (camera' = camera)]

NextAlign == Align

SpecAlign == InitAlign /\ [][NextAlign]_vars

(* =============================================================== properties *)
ThirdOk == last.op = "third" /\ last.ok

UpdateCall == last.op \in {"third", "first"}

Eye == camera.transform.translation

(* C1: after every successful third-person update_transform the camera's
   distance lies in [min_distance, max_distance], whatever the starting
   distance, the zoom input and the calls before it. *)
DistanceWithinLimits ==
    ThirdOk => /\ camera.distance >= camera.config.min_distance
               /\ camera.distance <= camera.config.max_distance

\* a second update in a row, zoomed in to the lower limit
WitnessDistanceWithinLimits ==
    ThirdOk /\ last.after_update /\ camera.distance = camera.config.min_distance

(* C2: get_raycast_distance returns the full distance when the ray finds
   nothing and hit_distance - min_distance_to_objects when it hits; the
   returned distance never exceeds the camera's distance and on a hit it stops
   at least min_distance_to_objects short of the obstruction. *)
RaycastDistanceBounded ==
    ThirdOk =>
        /\ ~last.ray.some => last.usable = camera.distance
        /\ last.ray.some =>
              /\ last.usable = last.ray.v - camera.config.min_distance_to_objects
              /\ last.ray.v - last.usable >= camera.config.min_distance_to_objects
        /\ last.usable <= camera.distance

\* the ray hit an obstruction exactly at the end of its reach
WitnessRaycastDistanceBounded ==
    ThirdOk /\ last.ray.some /\ last.ray.v = camera.distance
        /\ last.usable < camera.distance

(* C3: the smoothing factor is min(rate * dt, 1).  For a finite internal pose:
   when the translation rate times dt reaches 1 the returned position is the
   internal position, when the rotation rate times dt reaches 1 the returned
   rotation is the internal rotation, and for every dt each coordinate of the
   returned position lies between the rendered and the internal one. *)
Between(x, a, b) == Min(a, b) <= x /\ x <= Max(a, b)

SmoothingSaturates ==
    (UpdateCall /\ last.ok /\ ~Eye.nan /\ ~camera.transform.rotation.nan) =>
        /\ last.rate * last.dt2 >= 2 => last.out.translation2 = Fin(Scale(Eye.v, 2))
        /\ camera.config.rotation_smoothing * last.dt2 >= 2
              => last.out.rotation = ExactRot(camera.transform.rotation)
        /\ ~last.out.translation2.nan
        /\ \A i \in 1..3 : Between(last.out.translation2.v[i],
                                   2 * Rendered.translation.v[i], 2 * Eye.v[i])

\* a long frame of the third-person camera with the faster (Closer) rate:
\* rate * dt = 2, the factor saturates
WitnessSmoothingSaturates ==
    ThirdOk /\ last.correction = "Closer" /\ last.rate * last.dt2 > 2
        /\ ~Eye.nan /\ Eye.v # Rendered.translation.v

(* C4 as stated: both cameras' update_transform fails exactly when the pan
   value cannot be read as an axis pair, whatever the look / secondary target. *)
FailsWheneverPanUnreadable == UpdateCall => (last.ok <=> last.pan_some)

(* C4 amended: the third-person update fails exactly when pan is unreadable;
   the first-person update fails exactly when pan is unreadable and no look
   target is set (with a look target it never reads pan and returns a
   transform). *)
FailsWhenPanIsReadAndUnreadable ==
    /\ last.op = "third" => (last.ok <=> last.pan_some)
    /\ last.op = "first" => (last.ok <=> (last.pan_some \/ last.had_secondary))

\* both error cases and the first-person call that succeeds without a pan
WitnessFailsWhenPanIsRead ==
    last.op = "first" /\ ~last.pan_some /\ last.had_secondary /\ last.ok

(* C9 as stated: when update_transform returns the input error the camera's
   internal state is the same as before the call, for both cameras and with
   or without a secondary target. *)
ErrorLeavesStateUnchanged == (UpdateCall /\ ~last.ok) => last.unchanged

(* C10 as stated: after every successful third-person update the internal
   position is target + (-forward) * usable_distance with usable_distance >= 0. *)
EyeBehindPivot ==
    (ThirdOk /\ last.fresh) =>
        /\ last.usable >= 0
        /\ ~Eye.nan /\ ~camera.transform.rotation.nan
        /\ Eye.v = Add(camera.target, Scale(Forward5(camera.transform.rotation), -last.usable))

(* C8 as stated: the correction is Closer exactly when the squared usable
   distance is below the squared eye-to-pivot distance left by the preceding
   update minus 1e-3; over consecutive updates with an unchanged pivot and an
   unchanged or larger usable distance it is Further; the translation rate is
   the going_further one for Further and the going_closer one for Closer. *)
CorrectionClassification ==
    ThirdOk =>
        /\ (last.correction = "Closer") <=> last.smaller
        /\ (last.after_update /\ last.same_pivot /\ last.not_smaller)
              => last.correction = "Further"
        /\ last.rate = IF last.correction = "Further"
                       THEN camera.config.translation_smoothing_going_further
                       ELSE camera.config.translation_smoothing_going_closer

(* C7: first person -> third person -> first person with no update between:
   position, look target, up, configuration and forward direction are those
   of the original (whose rotation is finite); the third-person camera in
   between has distance = min_distance and eye = target - forward * distance. *)
RoundTripPreserves ==
    (last.op = "to_first" /\ last.fresh /\ last.origin.kind = "first"
        /\ ~last.origin.transform.rotation.nan) =>
        /\ camera.kind = "first"
        /\ camera.transform.translation = last.origin.transform.translation
        /\ camera.secondary_target = last.origin.secondary_target
        /\ camera.up = last.origin.up
        /\ camera.config = last.origin.config
        /\ forward(camera) = forward(last.origin)
        /\ last.before.kind = "third"
        /\ last.before.distance = last.origin.config.min_distance
        /\ last.before.target = last.origin.transform.translation.v
        /\ last.before.transform.translation =
              Fin(Sub(last.before.target,
                      Scale(forward(last.origin).v, last.before.distance)))

\* a round trip of a camera that looks up and sideways at a look target
WitnessRoundTripPreserves ==
    /\ last.op = "to_first" /\ last.fresh /\ last.origin.kind = "first"
    /\ ~last.origin.transform.rotation.nan
    /\ last.origin.transform.rotation.pitch = 1
    /\ last.origin.transform.rotation.yaw = 1
    /\ last.origin.secondary_target.some

(* ------------------------------------------------ the alignment step (SpecAlign) *)
Aligned == last.op = "align"

Eye0 == last.before.transform.translation.v

Pivot0 == last.before.target

Secondary0 == last.before.secondary_target.v

Cross(a, b) ==
    <<a[2] * b[3] - a[3] * b[2], a[3] * b[1] - a[1] * b[3], a[1] * b[2] - a[2] * b[1]>>

\* the secondary target lies on the line through the eye and the pivot
OnEyePivotLine ==
    Eye0 # Pivot0 /\ Cross(Sub(Secondary0, Pivot0), Sub(Pivot0, Eye0)) = Zero3

\* the secondary target is horizontally on the pivot: on it, above or below it
OverPivot == Horizontal(Sub(Secondary0, Pivot0)) = Zero3

(* C5 as stated: move_eye_to_align_target_with leaves the eye where it is
   whenever the secondary target lies on the line through eye and pivot, on
   either side of the pivot, or on, above or below the pivot. *)
AlignNoOpOnLine ==
    (Aligned /\ (OnEyePivotLine \/ OverPivot)) => Eye = Fin(Eye0)

(* C5 amended: the eye stays where it is whenever the secondary target is on,
   above or below the pivot, or lies on the line through eye and pivot on the
   side of the pivot away from the eye. *)
AlignNoOpBeyondPivot ==
    (Aligned /\ (OverPivot \/ (OnEyePivotLine
                                /\ Dot(Sub(Secondary0, Pivot0), Sub(Pivot0, Eye0)) > 0)))
        => Eye = Fin(Eye0)

\* a camera looking up at its pivot, the secondary target further along the
\* same sloped line
WitnessAlignNoOpBeyondPivot ==
    /\ Aligned /\ OnEyePivotLine /\ ~OverPivot
    /\ Dot(Sub(Secondary0, Pivot0), Sub(Pivot0, Eye0)) > 0
    /\ Eye0[2] # Pivot0[2]
    /\ Eye = Fin(Eye0)

(* C6 amended: when the horizontal offsets from the pivot to the secondary
   target and from the eye to the pivot are both non-zero, the eye is orbited
   about the pivot so that the horizontal direction from eye to pivot equals
   the one from pivot to secondary target, its distance from the pivot and its
   height unchanged, whatever the heights of eye, pivot and secondary target
   (eye (2,0,0), pivot (-2,0,0), secondary (-2,y,-2) gives eye (-2,0,4)). *)
AlignFacesSecondaryFromOffPivotEye ==
    (Aligned /\ ~OverPivot /\ Horizontal(Sub(Pivot0, Eye0)) # Zero3) =>
        /\ ~Eye.nan
        /\ Normalize(Horizontal(Sub(Pivot0, Eye.v)))
              = Normalize(Horizontal(Sub(Secondary0, Pivot0)))
        /\ LengthSquared(Sub(Eye.v, Pivot0)) = LengthSquared(Sub(Eye0, Pivot0))
        /\ Eye.v[2] = Eye0[2]
        /\ (Eye0 = <<10, 0, 0>> /\ Pivot0 = <<-10, 0, 0>>
              /\ Horizontal(Sub(Secondary0, Pivot0))[3] < 0) => Eye.v = <<-10, 0, 20>>

\* the unit test at a right angle, the secondary target raised above the pivot
WitnessAlignFacesSecondary ==
    /\ Aligned /\ Eye0 = <<10, 0, 0>> /\ Pivot0 = <<-10, 0, 0>>
    /\ Secondary0 = <<-10, 10, -10>> /\ Eye = Fin(<<-10, 0, 20>>)

(* C6 as stated: when the horizontal offset from the pivot to the secondary
   target is non-zero, the eye is orbited about the pivot so that the
   horizontal direction from eye to pivot equals the one from pivot to
   secondary target, its distance from the pivot and its height unchanged
   (eye (2,0,0), pivot (-2,0,0), secondary (-2,0,-2) gives eye (-2,0,4)). *)
AlignFacesSecondary ==
    (Aligned /\ ~OverPivot) =>
        /\ ~Eye.nan
        /\ Normalize(Horizontal(Sub(Pivot0, Eye.v)))
              = Normalize(Horizontal(Sub(Secondary0, Pivot0)))
        /\ LengthSquared(Sub(Eye.v, Pivot0)) = LengthSquared(Sub(Eye0, Pivot0))
        /\ Eye.v[2] = Eye0[2]
        /\ (Eye0 = <<10, 0, 0>> /\ Pivot0 = <<-10, 0, 0>>
              /\ Horizontal(Sub(Secondary0, Pivot0))[3] < 0) => Eye.v = <<-10, 0, 20>>
====
